---- MODULE Spec2Model ----
(***************************************************************************)
(* Idempotent publish and the newsletters-issue delivery queue of          *)
(* zero2prod.                                                              *)
(*                                                                         *)
(* Storage is PostgreSQL at its default isolation level (READ COMMITTED):  *)
(* a statement sees the rows committed before it started plus the writes   *)
(* of its own transaction, and a dropped sqlx transaction rolls back.      *)
(* The committed tables are the variables idempotency, issues and queue;   *)
(* the writes of an open transaction live in the record of the request or  *)
(* worker that owns it until its commit step.                              *)
(***************************************************************************)
EXTENDS Integers, Sequences, FiniteSets, TLC

VARIABLES
    idempotency,    \* table idempotency: (user_id, idempotency_key) -> row
    subscriptions,  \* table subscriptions: email -> status
    issues,         \* table newsletters_issues: id -> row
    queue,          \* table newsletters_issues_delivery_queue: set of <<id, email>>
    req,            \* POST /admin/newsletters requests in flight
    wk,             \* delivery workers (worker_loop / try_execute_task)
    permit,         \* the stored permit of the shared tokio::sync::Notify
    accepted,       \* transport: <<id, email>> -> number of worker sends it accepted
    faults,         \* faults injected so far into the workers: storage errors and crashes
    crashes,        \* how many of these faults were a worker process killed and restarted
    wired,          \* whether the notify_one of a publish reaches the Notify the workers wait on
    first,          \* history: the response returned by the publish that committed each record
    swept,          \* history: pairs whose record the sweeper has deleted
    probe           \* a key string and a response taken through the conversions of idempotency/

vars == <<idempotency, subscriptions, issues, queue, req, wk, permit, accepted, faults,
          crashes, wired, first, swept, probe>>

\* the state of the delivery side, and that of the publish side
dvars == <<subscriptions, issues, queue, wk, permit, accepted, faults, crashes, wired>>
pvars == <<idempotency, req, first, swept>>

----------------------------------------------------------------------------
(* Bounds of the model *)

NReq == 2
MaxFaults == 1
\* the batch_size try_execute_task passes to dequeue_tasks
BatchSize == 50
\* the longest header list of a response put through the conversions
MaxHeaders == 3

Reqs == 1..NReq
Workers == {"w1", "w2"}
IssueIds == {1, 2}

Users == {"u1", "u2"}
\* idempotency keys a client may post: the empty string, a short key, one of
\* 63 bytes and one of 64 bytes
Key63 == "kkkkkkkkkkkkkkkkkkkkkkkkkkkkkkkkkkkkkkkkkkkkkkkkkkkkkkkkkkkkkkk"
Key64 == "KKKKKKKKKKKKKKKKKKKKKKKKKKKKKKKKKKKKKKKKKKKKKKKKKKKKKKKKKKKKKKKK"
KeyPool == {"", "k1", Key63, Key64}
Pairs == Users \X KeyPool
Emails == {"a@x.io", "b@x.io", "not-an-email"}

\* the sets of subscribers that have confirmed before the first request
ConfirmedAtStart == {{}, {"a@x.io", "b@x.io"}, {"a@x.io", "not-an-email"}}

EmailRank(e) == CASE e = "a@x.io" -> 1 [] e = "b@x.io" -> 2 [] OTHER -> 3

\* an absent row, an SQL NULL and a response not yet produced
NoRow == [absent |-> TRUE]
Null == [null |-> TRUE]
NoResp == [none |-> TRUE]

\* no value is being converted
NoProbe == [pc |-> "none"]

\* a request that has not arrived, and a worker at the top of worker_loop
NewRequest ==
    [pc |-> "new", user |-> "u1", key |-> "", todo |-> {}, sent |-> {},
     row |-> Null, out |-> NoResp, path |-> "none", cause |-> "none", raced |-> FALSE]

IdleWorker ==
    [pc |-> "idle", issue |-> 0, batch |-> {}, finished_emails |-> {}]

----------------------------------------------------------------------------
(* Value types *)

MAX_LENGTH == 64

\* as below with > for >= in the length test
IdempotencyKeyTryFromBug(value) ==
    IF Len(value) = 0 THEN FALSE
    ELSE IF Len(value) > MAX_LENGTH THEN FALSE
    ELSE TRUE

\* IdempotencyKey::try_from: Ok iff the string is not empty and shorter than MAX_LENGTH
IdempotencyKeyTryFrom(value) ==
    IF Len(value) = 0 THEN FALSE
    ELSE IF Len(value) >= MAX_LENGTH THEN FALSE
    ELSE TRUE

\* Ok(Self(value)): the key wraps the string it was made from
IdempotencyKeyNew(value) == [inner |-> value]

\* as below, cut to the 63 bytes the column takes
IdempotencyKeyAsRefCut(key) ==
    IF Len(key.inner) >= MAX_LENGTH - 1
    THEN SubSeq(key.inner, 1, MAX_LENGTH - 2) ELSE key.inner

\* as_ref / From<IdempotencyKey> for String: the wrapped string
IdempotencyKeyAsRef(key) == key.inner

\* SubscriberEmail::parse (validate_email), on the addresses of the model
SubscriberEmailParse(email) == email \in {"a@x.io", "b@x.io"}

\* the rows of a result set are handled in the order the query returned them
NextEmail(S) == CHOOSE e \in S : \A o \in S : EmailRank(e) <= EmailRank(o)

\* see_other(location): 303 with a Location header and an empty body
see_other(location) ==
    [status |-> 303, headers |-> << <<"location", location>> >>, body |-> <<>>]

\* e400 / e500: the error responses of the handler
e400 == [status |-> 400, headers |-> <<>>, body |-> <<"error">>]
e500 == [status |-> 500, headers |-> <<>>, body |-> <<"error">>]

----------------------------------------------------------------------------
(* idempotency/persistence.rs *)

\* the columns written by update_idempotency_response_record: status as i16,
\* one ResponseHeaderRecord {key, value} per header in iteration order, body bytes
SaveResponseBug(response) ==
    [response_status_code |-> response.status,
     response_headers |-> <<>>,
     response_body |-> response.body]

SaveResponse(response) ==
    [response_status_code |-> response.status,
     response_headers |->
        [i \in 1..Len(response.headers) |->
            [key |-> response.headers[i][1], value |-> response.headers[i][2]]],
     response_body |-> response.body]

\* HeaderMap, as the list of (name, value) pairs its iter() yields: the values
\* of one name follow each other in the order they were appended.
\* append: the value joins the values the name already has, a new name comes last
LastOf(headers, name) ==
    LET at == {i \in 1..Len(headers) : headers[i][1] = name}
    IN  IF at = {} THEN 0 ELSE CHOOSE i \in at : \A j \in at : j <= i

HeaderMapAppend(headers, pair) ==
    LET k == LastOf(headers, pair[1])
    IN  IF k = 0 THEN Append(headers, pair)
        ELSE SubSeq(headers, 1, k) \o <<pair>> \o SubSeq(headers, k + 1, Len(headers))

\* insert: the value replaces the values the name already has
HeaderMapInsert(headers, pair) ==
    Append(SelectSeq(headers, LAMBDA h : h[1] # pair[1]), pair)

RECURSIVE AppendHeaders(_, _)
AppendHeaders(headers, pairs) ==
    IF pairs = <<>> THEN headers
    ELSE AppendHeaders(HeaderMapAppend(headers, Head(pairs)), Tail(pairs))

RECURSIVE InsertHeaders(_, _)
InsertHeaders(headers, pairs) ==
    IF pairs = <<>> THEN headers
    ELSE InsertHeaders(HeaderMapInsert(headers, Head(pairs)), Tail(pairs))

\* as below with insert_header for append_header
LoadResponseInsert(row) ==
    [status |-> row.response_status_code,
     headers |->
        InsertHeaders(<<>>,
            [i \in 1..Len(row.response_headers) |->
                <<row.response_headers[i].key, row.response_headers[i].value>>]),
     body |-> row.response_body]

\* the HttpResponse rebuilt by get_idempotency_response_record_from_database:
\* build(status_code), append_header for every record in order, body
LoadResponse(row) ==
    [status |-> row.response_status_code,
     headers |->
        AppendHeaders(<<>>,
            [i \in 1..Len(row.response_headers) |->
                <<row.response_headers[i].key, row.response_headers[i].value>>]),
     body |-> row.response_body]

\* the response update_idempotency_response_record hands back: the same head
\* with the buffered body set again
ReturnedResponse(response) ==
    [status |-> response.status, headers |-> response.headers, body |-> response.body]

PairOf(r) == <<req[r].user, req[r].key>>

\* the request's transaction holds an uncommitted placeholder row
HoldsPlaceholder(r) == req[r].pc \in {"claimed", "sending", "stored"}

\* INSERT ... ON CONFLICT DO NOTHING waits while another open transaction holds
\* an uncommitted row with the same (user_id, idempotency_key)
UncommittedConflict(r) ==
    \E o \in Reqs \ {r} : HoldsPlaceholder(o) /\ PairOf(o) = PairOf(r)

InsertMustWaitBug(r) == FALSE

InsertMustWait(r) == UncommittedConflict(r)

\* rows_affected() of the INSERT once it runs: 0 when a row with the same
\* (user_id, idempotency_key) conflicts, 1 when the placeholder was inserted
RowsAffected(r) ==
    IF idempotency[PairOf(r)] = NoRow /\ ~UncommittedConflict(r) THEN 1 ELSE 0


NewsletterRow(response) == [response |-> response, expired |-> FALSE]

----------------------------------------------------------------------------
(* routes/admin/newsletters/post.rs: publish_newsletters, one step per await *)

Finish(r, response, cause) ==
    [req EXCEPT ![r].pc = "done", ![r].out = response, ![r].cause = cause,
                ![r].todo = {}, ![r].row = Null]

\* idempotency_key.try_into().map_err(e400)?, then pg_pool.begin()
publish_newsletters(r) ==
    /\ req[r].pc = "new"
    /\ \A o \in Reqs : o < r => req[o].pc # "new"
    /\ \E u \in Users, k \in KeyPool :
          IF IdempotencyKeyTryFrom(k)
          THEN req' = [req EXCEPT ![r].pc = "insert", ![r].user = u, ![r].key = k,
                                  ![r].raced = \E o \in Reqs :
                                      HoldsPlaceholder(o) /\ PairOf(o) = <<u, k>>]
          ELSE req' = [req EXCEPT ![r].pc = "done", ![r].user = u, ![r].key = k,
                                  ![r].out = e400, ![r].path = "Rejected",
                                  ![r].cause = "validation"]
    /\ UNCHANGED <<idempotency, dvars, probe, first, swept>>

\* try_insert_idempotency_response_record_into_database: the INSERT and the
\* match on rows_affected
try_insert_idempotency_response_record_into_database(r) ==
    /\ req[r].pc = "insert"
    /\ ~InsertMustWait(r)
    /\ IF RowsAffected(r) = 0
       THEN req' = [req EXCEPT ![r].pc = "lookup", ![r].path = "Conflict"]
       ELSE req' = [req EXCEPT ![r].pc = "claimed", ![r].path = "Claimed"]
    /\ UNCHANGED <<idempotency, dvars, probe, first, swept>>

\* as below, but a record that is not found counts as a key just claimed
get_idempotency_response_record_unwrap_or_claim(r) ==
    /\ req[r].pc = "lookup"
    /\ LET row == idempotency[PairOf(r)] IN
          IF row = NoRow
          THEN req' = [req EXCEPT ![r].pc = "claimed", ![r].path = "Claimed"]
          ELSE IF row.response = Null
          THEN req' = Finish(r, e500, "storage")
          ELSE req' = [Finish(r, LoadResponse(row.response), "none")
                          EXCEPT ![r].path = "Completed"]
    /\ UNCHANGED <<idempotency, dvars, probe, first, swept>>

\* as below, but the handler does not return on Completed and goes on as if
\* it had claimed the key
get_idempotency_response_record_fallthrough(r) ==
    /\ req[r].pc = "lookup"
    /\ LET row == idempotency[PairOf(r)] IN
          IF row = NoRow
          THEN req' = Finish(r, e500, "no_response")
          ELSE req' = [req EXCEPT ![r].pc = "claimed", ![r].path = "Completed",
                                  ![r].out = LoadResponse(row.response)]
    /\ UNCHANGED <<idempotency, dvars, probe, first, swept>>

\* get_idempotency_response_record_from_database, ok_or_else, commit, Completed:
\* the handler returns the stored response at once
get_idempotency_response_record_from_database(r) ==
    /\ req[r].pc = "lookup"
    /\ LET row == idempotency[PairOf(r)] IN
          IF row = NoRow
          THEN \* the SELECT sees no committed row: "Expected to get a idempotency
               \* response record from database", mapped to 500
               req' = Finish(r, e500, "no_response")
          ELSE IF row.response = Null
          THEN \* a NULL in a column forced non-null is a decode error, mapped to 500
               req' = Finish(r, e500, "storage")
          ELSE req' = [Finish(r, LoadResponse(row.response), "none")
                          EXCEPT ![r].path = "Completed"]
    /\ UNCHANGED <<idempotency, dvars, probe, first, swept>>

\* get_confirmed_subscribers: SELECT email FROM subscriptions WHERE status = 'confirmed'
get_confirmed_subscribers(r) ==
    /\ req[r].pc = "claimed"
    /\ req' = [req EXCEPT ![r].pc = "sending",
                          ![r].todo = {e \in Emails : subscriptions[e] = "confirmed"}]
    /\ UNCHANGED <<idempotency, dvars, probe, first, swept>>

\* one turn of the loop over confirmed_subscribers: an address that does not
\* parse is skipped with a warning, a failed send_email ends the request with 500
send_email(r) ==
    /\ req[r].pc = "sending"
    /\ req[r].todo # {}
    /\ LET e == NextEmail(req[r].todo) IN
          IF ~SubscriberEmailParse(e)
          THEN req' = [req EXCEPT ![r].todo = @ \ {e}]
          ELSE \/ req' = [req EXCEPT ![r].todo = @ \ {e}, ![r].sent = @ \cup {e}]
               \/ req' = Finish(r, e500, "transport")
    /\ UNCHANGED <<idempotency, dvars, probe, first, swept>>

\* update_idempotency_response_record on see_other("/admin/newsletters")
update_idempotency_response_record(r) ==
    /\ req[r].pc = "sending"
    /\ req[r].todo = {}
    /\ req' = [req EXCEPT ![r].pc = "stored",
                          ![r].row = SaveResponse(see_other("/admin/newsletters"))]
    /\ UNCHANGED <<idempotency, dvars, probe, first, swept>>

\* transaction.commit() and Ok(response)
publish_commit(r) ==
    /\ req[r].pc = "stored"
    /\ LET response == ReturnedResponse(see_other("/admin/newsletters")) IN
          /\ idempotency' = [idempotency EXCEPT ![PairOf(r)] = NewsletterRow(req[r].row)]
          /\ req' = Finish(r, response, "none")
          /\ first' = [first EXCEPT ![PairOf(r)] = response]
    /\ UNCHANGED <<dvars, probe, swept>>

\* what a failed storage call of the request leaves in the committed tables:
\* the transaction is dropped, which rolls it back
RolledBackBug(r) ==
    IF HoldsPlaceholder(r)
    THEN [idempotency EXCEPT ![PairOf(r)] = NewsletterRow(req[r].row)]
    ELSE idempotency

RolledBack(r) == idempotency

\* any storage call of the request fails: map_err(e500)? drops the transaction
publish_storage_error(r) ==
    /\ \/ req[r].pc \in {"insert", "lookup", "claimed", "stored"}
       \/ req[r].pc = "sending" /\ req[r].todo = {}
    /\ idempotency' = RolledBack(r)
    /\ req' = Finish(r, e500, "storage")
    /\ UNCHANGED <<dvars, probe, first, swept>>

----------------------------------------------------------------------------
(* newsletters_issues.rs: DeleteExpiredIdempotencyWorker *)

\* time passes: now() - created_at of a committed record grows beyond the TTL
Expire(p) ==
    /\ idempotency[p] # NoRow
    /\ ~idempotency[p].expired
    /\ idempotency' = [idempotency EXCEPT ![p].expired = TRUE]
    /\ UNCHANGED <<dvars, probe, req, first, swept>>

Expired == {p \in Pairs : idempotency[p] # NoRow /\ idempotency[p].expired}

\* as below with the DELETE ending after its first row
delete_expired_idempotency_key_once ==
    /\ \E p \in Expired :
          /\ idempotency' = [idempotency EXCEPT ![p] = NoRow]
          /\ swept' = swept \cup {p}
    /\ UNCHANGED <<dvars, probe, req, first>>

\* DELETE FROM idempotency WHERE now() - created_at > $1
delete_expired_idempotency_keys ==
    /\ Expired # {}
    /\ idempotency' = [p \in Pairs |-> IF p \in Expired THEN NoRow ELSE idempotency[p]]
    /\ swept' = swept \cup Expired
    /\ UNCHANGED <<dvars, probe, req, first>>

----------------------------------------------------------------------------
(* newsletters_issues.rs: the statements of the queue *)

\* INSERT INTO newsletters_issues (...) VALUES ($1, ..., 'AVAILABLE', now(), 0, 0)
insert_newsletters_issue(table, newsletters_issue_id) ==
    [table EXCEPT ![newsletters_issue_id] =
        [status |-> "AVAILABLE", finished_n_tasks |-> 0, required_n_tasks |-> 0]]

\* as below without the WHERE clause
enqueue_task_all(rows, newsletters_issue_id) ==
    rows \cup {<<newsletters_issue_id, e>> : e \in Emails}

\* INSERT INTO newsletters_issues_delivery_queue (id, subscriber_email)
\* SELECT $1, email FROM subscriptions WHERE status = 'confirmed'
enqueue_task(rows, newsletters_issue_id) ==
    rows \cup {<<newsletters_issue_id, e>> :
                  e \in {s \in Emails : subscriptions[s] = "confirmed"}}

\* SELECT COUNT(*) FROM newsletters_issues_delivery_queue WHERE id = $1
get_tasks_count_in_queue(rows, newsletters_issue_id) ==
    Cardinality({t \in rows : t[1] = newsletters_issue_id})

\* UPDATE newsletters_issues SET required_n_tasks = $1 WHERE id = $2
update_newsletters_issue_require_n_tasks(table, newsletters_issue_id, required_n_tasks) ==
    IF table[newsletters_issue_id] = NoRow THEN table
    ELSE [table EXCEPT ![newsletters_issue_id].required_n_tasks = required_n_tasks]

\* as below without the WHERE clause
AnyIssues == {i \in IssueIds : issues[i] # NoRow}

\* SELECT ... FROM newsletters_issues WHERE status = 'AVAILABLE': the rows
\* fetch_optional may return
AvailableIssues ==
    {i \in IssueIds : issues[i] # NoRow /\ issues[i].status = "AVAILABLE"}

\* as below when no transaction keeps its row locks
NoLocks(w) == {}

\* the rows a worker's open transaction holds FOR UPDATE
Locked(w) ==
    IF wk[w].pc = "sending"
    THEN {<<wk[w].issue, e>> : e \in wk[w].batch}
    ELSE {}

\* as below when the SELECT returns locked rows too
ClaimableNoSkip(w, newsletters_issue_id) ==
    {t[2] : t \in {q \in queue : q[1] = newsletters_issue_id}}

\* SELECT subscriber_email ... WHERE id = $1 FOR UPDATE SKIP LOCKED: the rows
\* of the issue no other transaction holds
Claimable(w, newsletters_issue_id) ==
    {t[2] : t \in {q \in queue : /\ q[1] = newsletters_issue_id
                                 /\ \A o \in Workers \ {w} : q \notin Locked(o)}}

\* ... LIMIT $2: any batch_size of them, all of them when there are fewer
Batches(S, batch_size) ==
    IF Cardinality(S) <= batch_size THEN {S}
    ELSE {B \in SUBSET S : Cardinality(B) = batch_size}

\* as below without the test on subscriber_email
delete_tasks_of_issue(rows, newsletters_issue_id, subscriber_emails) ==
    {t \in rows : t[1] # newsletters_issue_id}

\* DELETE FROM newsletters_issues_delivery_queue
\* WHERE id = $1 AND subscriber_email = ANY($2)
delete_tasks(rows, newsletters_issue_id, subscriber_emails) ==
    {t \in rows : ~(t[1] = newsletters_issue_id /\ t[2] \in subscriber_emails)}

\* UPDATE newsletters_issues SET finished_n_tasks = finished_n_tasks + $1
\* WHERE id = $2 AND status = 'AVAILABLE'
AddFinished(table, newsletters_issue_id, done_tasks_count) ==
    IF table[newsletters_issue_id] # NoRow
       /\ table[newsletters_issue_id].status = "AVAILABLE"
    THEN [table EXCEPT ![newsletters_issue_id].finished_n_tasks = @ + done_tasks_count]
    ELSE table

\* UPDATE newsletters_issues SET status = 'COMPLETED'
\* WHERE id = $2 AND status = 'AVAILABLE' AND finished_n_tasks = required_n_tasks
MarkCompleted(table, newsletters_issue_id) ==
    IF /\ table[newsletters_issue_id] # NoRow
       /\ table[newsletters_issue_id].status = "AVAILABLE"
       /\ table[newsletters_issue_id].finished_n_tasks
             = table[newsletters_issue_id].required_n_tasks
    THEN [table EXCEPT ![newsletters_issue_id].status = "COMPLETED"]
    ELSE table

\* update_newsletters_issue_status: both UPDATEs in one transaction
update_newsletters_issue_status(table, newsletters_issue_id, done_tasks_count) ==
    MarkCompleted(AddFinished(table, newsletters_issue_id, done_tasks_count),
                  newsletters_issue_id)

----------------------------------------------------------------------------
(* The publish transaction of the design: issue, task snapshot, task count *)

UnusedIssueIds == {i \in IssueIds : issues[i] = NoRow}

\* steps 2 to 4, 6 and 7 of publish: insert the issue, enqueue one task per
\* confirmed subscriber, set required_n_tasks to the count, commit, notify.
\* The wake signal is best effort: it acts on the Notify of the publishing
\* process, which only the workers wired to that Notify see. notify_one wakes
\* one of the workers waiting in notified(), and stores a permit when none waits
EnqueueIssue ==
    /\ UnusedIssueIds # {}
    /\ LET id == CHOOSE i \in UnusedIssueIds : \A o \in UnusedIssueIds : i <= o
           inserted == insert_newsletters_issue(issues, id)
           rows == enqueue_task(queue, id)
           n == get_tasks_count_in_queue(rows, id)
       IN  /\ issues' = update_newsletters_issue_require_n_tasks(inserted, id, n)
           /\ queue' = rows
    /\ IF wired /\ \E w \in Workers : wk[w].pc = "waiting"
       THEN /\ \E w \in Workers :
                  /\ wk[w].pc = "waiting"
                  /\ wk' = [wk EXCEPT ![w].pc = "idle"]
            /\ UNCHANGED permit
       ELSE /\ permit' = (permit \/ wired)
            /\ UNCHANGED wk
    /\ UNCHANGED <<subscriptions, accepted, faults, crashes, wired, pvars, probe>>

----------------------------------------------------------------------------
(* newsletters_issues.rs: worker_loop and try_execute_task, one step per await *)

Fault == faults < MaxFaults /\ faults' = faults + 1

\* Err(_) => tokio::time::sleep(Duration::from_secs(1)): the transaction of
\* the attempt is dropped
Failed(w) == [wk EXCEPT ![w] = [IdleWorker EXCEPT !.pc = "backoff"]]

\* get_available_newsletters_issues and the first EmptyQueue return
get_available_newsletters_issues(w) ==
    /\ wk[w].pc = "idle"
    /\ IF AvailableIssues = {}
       THEN wk' = [wk EXCEPT ![w].pc = "waiting"]
       ELSE \E i \in AvailableIssues :
               wk' = [wk EXCEPT ![w].pc = "selected", ![w].issue = i]
    /\ UNCHANGED <<subscriptions, issues, queue, permit, accepted, faults, crashes, wired, pvars, probe>>

\* dequeue_tasks(pg_pool, &newsletters_issue_id, 50) and the second EmptyQueue return
dequeue_tasks(w) ==
    /\ wk[w].pc = "selected"
    /\ \E B \in Batches(Claimable(w, wk[w].issue), BatchSize) :
          IF B = {}
          THEN wk' = [wk EXCEPT ![w] = [IdleWorker EXCEPT !.pc = "waiting"]]
          ELSE wk' = [wk EXCEPT ![w].pc = "sending", ![w].batch = B]
    /\ UNCHANGED <<subscriptions, issues, queue, permit, accepted, faults, crashes, wired, pvars, probe>>

\* the loop over remaining_emails: every address of the batch is tried in turn
\* (try_send_newsletter_issue_to_subscriber_email), whatever the outcome of the
\* others; an address that does not parse is an Err without a send, and the
\* addresses whose send was accepted are pushed to finished_emails
SendOutcomesUntilFailure(batch) ==
    {ok \in SUBSET {e \in batch : SubscriberEmailParse(e)} :
        \A e \in ok, o \in batch : EmailRank(o) < EmailRank(e) => o \in ok}

SendOutcomes(batch) == SUBSET {e \in batch : SubscriberEmailParse(e)}

Accept(w, ok) ==
    [t \in IssueIds \X Emails |->
        IF t[1] = wk[w].issue /\ t[2] \in ok THEN accepted[t] + 1 ELSE accepted[t]]

\* as below when the DELETE never takes effect
CommittedQueueKeep(w, ok, deleted) == queue

\* what the batch transaction leaves in the queue when it commits: the DELETE
\* took effect only if one of its attempts returned Ok
CommittedQueue(w, ok, deleted) ==
    IF deleted THEN delete_tasks(queue, wk[w].issue, ok) ELSE queue

\* try_execute_task from the send loop to transaction.commit(). The sends, the
\* retry loop around delete_tasks and the commit work on rows this transaction
\* holds locked until it ends, so they are one step; the row locks are held
\* all along, from dequeue_tasks to the commit or the drop of the transaction
send_and_delete(w) ==
    /\ wk[w].pc = "sending"
    /\ \E ok \in SendOutcomes(wk[w].batch) :
          /\ accepted' = Accept(w, ok)
          /\ \/ \* delete_tasks Ok (at the first attempt or at a retry), commit Ok
                /\ queue' = CommittedQueue(w, ok, TRUE)
                /\ wk' = [wk EXCEPT ![w].pc = "update", ![w].batch = {},
                                    ![w].finished_emails = ok]
                /\ UNCHANGED faults
             \/ \* every attempt fails until n_retries > MAX_RETRIES: break, and
                \* the commit of the aborted transaction ends it as a rollback
                /\ Fault
                /\ queue' = CommittedQueue(w, ok, FALSE)
                /\ wk' = [wk EXCEPT ![w].pc = "update", ![w].batch = {},
                                    ![w].finished_emails = ok]
             \/ \* ColumnDecode | ColumnNotFound | TypeNotFound => return Err,
                \* or transaction.commit().await? fails
                /\ Fault
                /\ wk' = Failed(w)
                /\ UNCHANGED queue
    /\ UNCHANGED <<subscriptions, issues, permit, crashes, wired, pvars, probe>>

\* update_newsletters_issue_status(pg_pool, &id, finished_emails.len())
\* and Ok(TaskCompleted)
finish_batch(w) ==
    /\ wk[w].pc = "update"
    /\ \/ /\ issues' = update_newsletters_issue_status(
                           issues, wk[w].issue, Cardinality(wk[w].finished_emails))
          /\ wk' = [wk EXCEPT ![w] = IdleWorker]
          /\ UNCHANGED faults
       \/ /\ Fault
          /\ wk' = Failed(w)
          /\ UNCHANGED issues
    /\ UNCHANGED <<subscriptions, queue, permit, accepted, crashes, wired, pvars, probe>>

\* the worker process is killed while a batch is in hand and started again:
\* an open batch transaction is rolled back by the server, although the
\* transport may have accepted some of its sends; after the commit of the
\* batch the deleted rows stay deleted and the counters are not updated. The
\* new process starts at the top of worker_loop
crash(w) ==
    /\ wk[w].pc \in {"sending", "update"}
    /\ Fault
    /\ crashes' = crashes + 1
    /\ IF wk[w].pc = "sending"
       THEN \E ok \in SendOutcomes(wk[w].batch) : accepted' = Accept(w, ok)
       ELSE UNCHANGED accepted
    /\ wk' = [wk EXCEPT ![w] = IdleWorker]
    /\ UNCHANGED <<subscriptions, issues, queue, permit, wired, pvars, probe>>

\* the sleep of one second is over
backoff(w) ==
    /\ wk[w].pc = "backoff"
    /\ wk' = [wk EXCEPT ![w].pc = "idle"]
    /\ UNCHANGED <<subscriptions, issues, queue, permit, accepted, faults, crashes, wired, pvars, probe>>

\* as below when the worker does not wait for a permit
notified_poll(w) ==
    /\ wk[w].pc = "waiting"
    /\ permit' = FALSE
    /\ wk' = [wk EXCEPT ![w].pc = "idle"]
    /\ UNCHANGED <<subscriptions, issues, queue, accepted, faults, crashes, wired, pvars, probe>>

\* notify.notified().await returns, consuming the permit
notified(w) ==
    /\ wk[w].pc = "waiting"
    /\ permit
    /\ permit' = FALSE
    /\ wk' = [wk EXCEPT ![w].pc = "idle"]
    /\ UNCHANGED <<subscriptions, issues, queue, accepted, faults, crashes, wired, pvars, probe>>

\* routes/subscriptions/confirm.rs: a pending subscriber follows the link of
\* the confirmation email: UPDATE subscriptions SET status = 'confirmed'. Only
\* a subscriber stored by subscribe, which validates the address, has a token
confirm(e) ==
    /\ subscriptions[e] = "pending"
    /\ SubscriberEmailParse(e)
    /\ subscriptions' = [subscriptions EXCEPT ![e] = "confirmed"]
    /\ UNCHANGED <<issues, queue, wk, permit, accepted, faults, crashes, wired, pvars, probe>>

----------------------------------------------------------------------------
(* The conversions of idempotency/ on their own, on any key and any response *)

\* the responses a guarded handler may hand to update_idempotency_response_record
HeaderPairs == {"location", "set-cookie"} \X {"a", "b"}
HeaderLists == UNION {[1..n -> HeaderPairs] : n \in 0..MaxHeaders}
Responses ==
    [status : {200, 303, 500},
     headers : {AppendHeaders(<<>>, l) : l \in HeaderLists},
     body : {<<>>, <<"x", "y">>}]

\* idempotency_key.try_into(), and the string the key gives back
probe_try_from ==
    /\ probe.pc = "input"
    /\ IF IdempotencyKeyTryFrom(probe.value)
       THEN LET key == IdempotencyKeyNew(probe.value) IN
                probe' = [probe EXCEPT !.pc = "key", !.key = key,
                                       !.back = IdempotencyKeyAsRef(key)]
       ELSE probe' = [probe EXCEPT !.pc = "rejected"]
    /\ UNCHANGED <<dvars, pvars>>

\* update_idempotency_response_record: the columns written and the response returned
probe_update_idempotency_response_record ==
    /\ probe.pc = "key"
    /\ probe' = [probe EXCEPT !.pc = "stored",
                              !.row = SaveResponse(probe.response),
                              !.returned = ReturnedResponse(probe.response)]
    /\ UNCHANGED <<dvars, pvars>>

\* get_idempotency_response_record_from_database on the row just written
probe_get_idempotency_response_record ==
    /\ probe.pc = "stored"
    /\ probe' = [probe EXCEPT !.pc = "loaded", !.loaded = LoadResponse(probe.row)]
    /\ UNCHANGED <<dvars, pvars>>

ValuesNext ==
    \/ probe_try_from
    \/ probe_update_idempotency_response_record
    \/ probe_get_idempotency_response_record

----------------------------------------------------------------------------
(* Initial state: empty tables but for the subscribers, nothing in flight *)

Init ==
    /\ idempotency = [p \in Pairs |-> NoRow]
    /\ \E C \in ConfirmedAtStart :
          subscriptions = [e \in Emails |-> IF e \in C THEN "confirmed" ELSE "pending"]
    /\ issues = [i \in IssueIds |-> NoRow]
    /\ queue = {}
    /\ req = [r \in Reqs |-> NewRequest]
    /\ wk = [w \in Workers |-> IdleWorker]
    /\ permit = FALSE
    /\ accepted = [t \in IssueIds \X Emails |-> 0]
    /\ faults = 0
    /\ crashes = 0
    /\ wired \in BOOLEAN
    /\ first = [p \in Pairs |-> NoResp]
    /\ swept = {}
    /\ probe = NoProbe

\* as Init, with a key string and a response to convert
InitValues ==
    /\ idempotency = [p \in Pairs |-> NoRow]
    /\ subscriptions = [e \in Emails |-> "pending"]
    /\ issues = [i \in IssueIds |-> NoRow]
    /\ queue = {}
    /\ req = [r \in Reqs |-> NewRequest]
    /\ wk = [w \in Workers |-> IdleWorker]
    /\ permit = FALSE
    /\ accepted = [t \in IssueIds \X Emails |-> 0]
    /\ faults = 0
    /\ crashes = 0
    /\ wired = TRUE
    /\ first = [p \in Pairs |-> NoResp]
    /\ swept = {}
    /\ \E value \in KeyPool, response \in Responses :
          probe = [pc |-> "input", value |-> value, key |-> Null, back |-> Null,
                   response |-> response, row |-> Null,
                   returned |-> NoResp, loaded |-> NoResp]

SpecValues == InitValues /\ [][ValuesNext]_vars

PublishNext ==
    \/ \E r \in Reqs : publish_newsletters(r)
    \/ \E r \in Reqs : try_insert_idempotency_response_record_into_database(r)
    \/ \E r \in Reqs : get_idempotency_response_record_from_database(r)
    \/ \E r \in Reqs : get_confirmed_subscribers(r)
    \/ \E r \in Reqs : send_email(r)
    \/ \E r \in Reqs : update_idempotency_response_record(r)
    \/ \E r \in Reqs : publish_commit(r)
    \/ \E r \in Reqs : publish_storage_error(r)
    \/ \E p \in Pairs : Expire(p)
    \/ delete_expired_idempotency_keys

SpecPublish == Init /\ [][PublishNext]_vars

DeliveryNext ==
    \/ EnqueueIssue
    \/ \E w \in Workers : get_available_newsletters_issues(w)
    \/ \E w \in Workers : dequeue_tasks(w)
    \/ \E w \in Workers : send_and_delete(w)
    \/ \E w \in Workers : finish_batch(w)
    \/ \E w \in Workers : backoff(w)
    \/ \E w \in Workers : notified(w)
    \/ \E w \in Workers : crash(w)

Spec == Init /\ [][DeliveryNext]_vars

\* the tasks of the model whose address parses
ValidTasks == {t \in IssueIds \X Emails : SubscriberEmailParse(t[2])}

\* a batch that commits with the send of task t accepted by the transport
accepts(w, t) ==
    /\ send_and_delete(w)
    /\ faults' = faults
    /\ wk[w].issue = t[1]
    /\ t[2] \in wk'[w].finished_emails

\* each worker is a spawned task that keeps running (every await of
\* worker_loop returns when it can), and the transport does not refuse an
\* address for ever
Fairness ==
    \A w \in Workers :
        /\ WF_vars(get_available_newsletters_issues(w))
        /\ WF_vars(dequeue_tasks(w))
        /\ WF_vars(send_and_delete(w))
        /\ WF_vars(finish_batch(w))
        /\ WF_vars(backoff(w))
        /\ WF_vars(notified(w))
        /\ \A t \in ValidTasks : SF_vars(accepts(w, t))

\* the delivery side under fair scheduling; publishes, storage faults and
\* crashes may stop for good
FairSpec == Spec /\ Fairness

\* the steps of try_execute_task when every storage call succeeds
send_and_delete_ok(w) == send_and_delete(w) /\ faults' = faults
finish_batch_ok(w) == finish_batch(w) /\ faults' = faults

\* the delivery side with no storage fault and no crash
FaultFreeNext ==
    \/ EnqueueIssue
    \/ \E w \in Workers : get_available_newsletters_issues(w)
    \/ \E w \in Workers : dequeue_tasks(w)
    \/ \E w \in Workers : send_and_delete_ok(w)
    \/ \E w \in Workers : finish_batch_ok(w)
    \/ \E w \in Workers : notified(w)

FaultFreeSpec == Init /\ [][FaultFreeNext]_vars /\ Fairness

\* publishes and fault-free deliveries while subscribers go on confirming
SnapshotNext ==
    \/ EnqueueIssue
    \/ \E w \in Workers : get_available_newsletters_issues(w)
    \/ \E w \in Workers : dequeue_tasks(w)
    \/ \E w \in Workers : send_and_delete_ok(w)
    \/ \E w \in Workers : finish_batch_ok(w)
    \/ \E w \in Workers : notified(w)
    \/ \E e \in Emails : confirm(e)

SpecSnapshot == Init /\ [][SnapshotNext]_vars

----------------------------------------------------------------------------
(* Properties *)

SeeOtherResponse == ReturnedResponse(see_other("/admin/newsletters"))

IssueRows == {i \in IssueIds : issues[i] # NoRow}
TasksOf(i) == {t \in queue : t[1] = i}
Done(r) == req[r].pc = "done"

C2_ReplayHasNoSideEffects ==
    [][\A r \in Reqs :
          (req'[r].path \in {"Conflict", "Completed"} /\ req'[r] # req[r]) =>
              /\ idempotency' = idempotency
              /\ issues' = issues
              /\ queue' = queue
              /\ accepted' = accepted
              /\ req'[r].sent = {}
              /\ req'[r].pc \in {"lookup", "done"}]_vars

C2_Witness ==
    \E r, o \in Reqs :
        /\ Done(r) /\ req[r].path = "Completed" /\ req[r].sent = {}
        /\ Done(o) /\ req[o].path = "Claimed" /\ req[o].out.status = 303
        /\ PairOf(o) = PairOf(r)
        /\ req[o].sent # {}

\* C3: once every request has finished, each (user_id, idempotency_key) pair
\* for which a publish succeeded has exactly one row in newsletters_issues.
C3_OneIssuePerKey ==
    (\A r \in Reqs : Done(r)) =>
        Cardinality(IssueRows)
            = Cardinality({p \in Pairs : \E r \in Reqs :
                              PairOf(r) = p /\ req[r].out.status = 303})

C5_FailureLeavesNoTrace ==
    [][\A r \in Reqs :
          (req'[r].pc = "done" /\ req[r].pc # "done" /\ req'[r].out.status = 500) =>
              /\ idempotency' = idempotency
              /\ issues' = issues
              /\ queue' = queue]_vars

C5_Witness ==
    \E r \in Reqs :
        /\ Done(r) /\ req[r].path = "Claimed" /\ req[r].out.status = 500
        /\ idempotency[PairOf(r)] = NoRow

\* C6: when a publish has failed with 500 and a retry with the same pair has
\* claimed the key and succeeded, there is exactly one row in newsletters_issues.
C6_RetryCreatesOneIssue ==
    \A r, o \in Reqs :
        (/\ Done(r) /\ req[r].path = "Claimed" /\ req[r].out.status = 500
         /\ Done(o) /\ req[o].path = "Claimed" /\ req[o].out.status = 303
         /\ PairOf(r) = PairOf(o)) =>
            Cardinality(IssueRows) = 1

C8_FinishedAtMostRequired ==
    \A i \in IssueRows : issues[i].finished_n_tasks <= issues[i].required_n_tasks

\* C9: an issue with status COMPLETED has finished_n_tasks = required_n_tasks
\* and no row left in the delivery queue.
C9_CompletedMeansDrained ==
    \A i \in IssueRows :
        issues[i].status = "COMPLETED" =>
            /\ issues[i].finished_n_tasks = issues[i].required_n_tasks
            /\ TasksOf(i) = {}

\* C10: an issue row is never deleted; once COMPLETED the row never changes
\* again (status, finished_n_tasks, required_n_tasks); and a worker only ever
\* selects an issue whose status is AVAILABLE.
C10_CompletedIsTerminal ==
    [][/\ \A i \in IssueIds :
             /\ issues[i] # NoRow => issues'[i] # NoRow
             /\ (issues[i] # NoRow /\ issues[i].status = "COMPLETED") =>
                   issues'[i] = issues[i]
       /\ \A w \in Workers :
             (wk[w].pc = "idle" /\ wk'[w].pc = "selected") =>
                 issues[wk'[w].issue].status = "AVAILABLE"]_vars

C10_Witness ==
    \E i \in IssueRows, w \in Workers :
        /\ issues[i].status = "COMPLETED"
        /\ wk[w].pc = "selected"
        /\ wk[w].issue # i

\* C18: publish performs no send of its own and never fails because of the
\* transport: no request has sent an email, and no request ends with the 500
\* of a refused send.
C18_PublishIndependentOfTransport ==
    \A r \in Reqs :
        /\ req[r].sent = {}
        /\ Done(r) => req[r].cause # "transport"

\* C20: a request whose idempotency_key is empty or longer than 63 bytes ends
\* at once with 400, before it has a transaction: it never claims a key, sends
\* nothing, and its step leaves every table and the transport as they were; a
\* key of 1 to 63 bytes goes on to the INSERT; a finished request does nothing
\* more.
C20_MalformedKeyRejected ==
    [][\A r \in Reqs :
          /\ (req[r].pc = "new" /\ req'[r].pc # "new") =>
                IF Len(req'[r].key) = 0 \/ Len(req'[r].key) > 63
                THEN /\ req'[r].pc = "done"
                     /\ req'[r].out.status = 400
                     /\ req'[r].path = "Rejected"
                     /\ req'[r].sent = {}
                     /\ idempotency' = idempotency
                     /\ issues' = issues
                     /\ queue' = queue
                     /\ accepted' = accepted
                ELSE req'[r].pc = "insert"
          /\ req[r].pc = "done" => req'[r] = req[r]]_vars

C20_Witness ==
    \E r, q \in Reqs :
        /\ Done(r) /\ Len(req[r].key) = 64 /\ req[r].out.status = 400
        /\ Done(q) /\ Len(req[q].key) = 63 /\ req[q].out.status = 303
        /\ \A p \in Pairs : idempotency[p] # NoRow => p = PairOf(q)

\* every confirmed subscriber has an address that parses
AllParse == \A e \in Emails : subscriptions[e] = "confirmed" => SubscriberEmailParse(e)

\* a batch of the issue has committed and left the task in the queue
LeftByBatch(t) ==
    /\ t \in queue
    /\ \E w \in Workers :
          wk[w].pc = "update" /\ wk[w].issue = t[1] /\ t[2] \notin wk[w].finished_emails

ClaimedBatch(w) ==
    IF wk[w].pc = "sending" THEN {<<wk[w].issue, e>> : e \in wk[w].batch} ELSE {}

\* the tasks the publishes have created so far
CreatedTasks ==
    {t \in IssueIds \X Emails : issues[t[1]] # NoRow /\ subscriptions[t[2]] = "confirmed"}

\* C11: the batches claimed by two workers whose transactions are both open
\* have no task in common.
C11_NoTaskClaimedTwice ==
    \A w, o \in Workers : w # o => ClaimedBatch(w) \cap ClaimedBatch(o) = {}

C11_Witness ==
    \E w, o \in Workers :
        /\ w # o
        /\ ClaimedBatch(w) # {}
        /\ wk[o].pc = "selected"
        /\ wk[o].issue = wk[w].issue

\* C12: with no storage fault and no crash, whatever the number of workers on
\* an issue, the transport accepts each task at most once, a task that has left
\* the queue was accepted exactly once, and nothing but the created tasks is
\* ever sent.
C12_ExactlyOncePerRecipient ==
    faults = 0 =>
        \A t \in IssueIds \X Emails :
            /\ accepted[t] <= 1
            /\ (t \in CreatedTasks /\ t \notin queue) => accepted[t] = 1
            /\ t \notin CreatedTasks => accepted[t] = 0

C12_Witness ==
    \E w, o \in Workers, i \in IssueRows :
        /\ faults = 0
        /\ wk[w].pc = "update" /\ wk[w].issue = i /\ wk[w].finished_emails = {"a@x.io"}
        /\ ClaimedBatch(o) = {<<i, "b@x.io">>}
        /\ accepted[<<i, "a@x.io">>] = 1
        /\ <<i, "a@x.io">> \notin queue

\* C15: whatever storage fault or crash has happened, every task that was
\* created is still in the queue or has had a send accepted: no task leaves the
\* queue without a successful send.
C15_NoTaskLost ==
    \A t \in CreatedTasks : t \in queue \/ accepted[t] >= 1

C15_Witness ==
    \E t \in CreatedTasks, o \in CreatedTasks :
        /\ crashes = 1
        /\ t \in queue /\ accepted[t] = 1
        /\ o \notin queue /\ accepted[o] = 1
        /\ \A w \in Workers : wk[w].pc \in {"idle", "waiting"}

\* C16: in a batch every address that parses is tried whatever the outcome of
\* the others (every combination of accepted and refused sends can happen),
\* and when the batch commits with its DELETE done, the tasks whose send was
\* accepted are gone from the queue and the others are still there.
C16_FailureDoesNotStopBatch ==
    /\ [](\A w \in Workers :
             wk[w].pc = "sending" =>
                 \A ok \in SUBSET {e \in wk[w].batch : SubscriberEmailParse(e)} :
                     ENABLED (/\ send_and_delete(w)
                              /\ faults' = faults
                              /\ wk'[w].finished_emails = ok))
    /\ [][\A w \in Workers :
             (wk[w].pc = "sending" /\ wk'[w].pc = "update" /\ faults' = faults) =>
                 LET i == wk[w].issue
                     ok == wk'[w].finished_emails
                 IN  /\ ok \subseteq wk[w].batch
                     /\ queue' = queue \ {<<i, e>> : e \in ok}
                     /\ \A e \in wk[w].batch \ ok : <<i, e>> \in queue'
                     /\ \A e \in wk[w].batch :
                           accepted'[<<i, e>>]
                               = accepted[<<i, e>>] + (IF e \in ok THEN 1 ELSE 0)]_vars

C16_Witness ==
    \E w \in Workers, i \in IssueRows :
        /\ faults = 0
        /\ wk[w].pc = "update" /\ wk[w].issue = i /\ wk[w].finished_emails = {"b@x.io"}
        /\ <<i, "a@x.io">> \in queue /\ accepted[<<i, "a@x.io">>] = 0
        /\ <<i, "b@x.io">> \notin queue /\ accepted[<<i, "b@x.io">>] = 1

\* the issue is COMPLETED with its counters equal, its queue empty and one
\* accepted send for each of its required_n_tasks tasks
Delivered(i) ==
    /\ issues[i] # NoRow
    /\ issues[i].status = "COMPLETED"
    /\ issues[i].finished_n_tasks = issues[i].required_n_tasks
    /\ TasksOf(i) = {}
    /\ \A e \in Emails :
          accepted[<<i, e>>] = (IF subscriptions[e] = "confirmed" THEN 1 ELSE 0)

\* C13: with no storage fault and no crash, workers that get the wake signal of
\* every publish and a transport that does not refuse an address for ever,
\* every published issue is eventually COMPLETED with finished_n_tasks =
\* required_n_tasks, no task left and one accepted send per task.
C13_EveryIssueCompletes ==
    \A i \in IssueIds : [](wired /\ issues[i] # NoRow => <>Delivered(i))

\* C14: when the only faults are crashes of a worker with a batch in hand,
\* each followed by a restart, every issue with tasks is still eventually
\* COMPLETED, every one of its tasks having left the queue after an accepted
\* send.
C14_CrashSafeDelivery ==
    [](faults = crashes) =>
        \A i \in IssueIds :
            [](wired /\ AllParse /\ issues[i] # NoRow /\ TasksOf(i) # {} =>
                  <>(/\ issues[i] # NoRow
                     /\ issues[i].status = "COMPLETED"
                     /\ TasksOf(i) = {}
                     /\ \A e \in Emails :
                           subscriptions[e] = "confirmed" => accepted[<<i, e>>] >= 1))

\* C19: whether or not the wake signal of the publish reaches the workers, the
\* tasks of a published issue are eventually claimed and leave the queue.
C19_DrainedWithoutWakeSignal ==
    \A i \in IssueIds :
        [](AllParse /\ issues[i] # NoRow => <>(TasksOf(i) = {}))

\* C21: a step that deletes idempotency records (a sweep) leaves no record
\* whose age exceeds the TTL.
C21_SweepLeavesNoExpiredRecord ==
    [][(\E p \in Pairs : idempotency[p] # NoRow /\ idempotency'[p] = NoRow) =>
          \A p \in Pairs : idempotency'[p] # NoRow => ~idempotency'[p].expired]_vars

C21_Witness ==
    /\ Cardinality(swept) = 2
    /\ \A p \in Pairs : idempotency[p] = NoRow
    /\ \A r \in Reqs : Done(r) /\ req[r].out.status = 303

\* C22: when the record of a pair has been swept and a later publish with the
\* pair has committed, that publish claimed the key as a first publish, sent
\* to every confirmed subscriber, and there is an issue for it beside the
\* issue of the first publish.
C22_RepublishAfterSweep ==
    \A p \in swept :
        idempotency[p] # NoRow =>
            /\ \E r \in Reqs :
                  /\ PairOf(r) = p /\ Done(r) /\ req[r].path = "Claimed"
                  /\ req[r].out = SeeOtherResponse
            /\ Cardinality(IssueRows) = 2

\* C23: when every request is a successful publish with a key of its own,
\* there are as many issues as requests, and each (issue, confirmed subscriber)
\* pair has exactly one task or accepted send.
C23_OneIssuePerPublish ==
    (/\ \A r \in Reqs : Done(r) /\ req[r].path = "Claimed" /\ req[r].cause = "none"
     /\ \A r, o \in Reqs : r # o => req[r].key # req[o].key) =>
        /\ Cardinality(IssueRows) = NReq
        /\ \A i \in IssueRows, e \in Emails :
              subscriptions[e] = "confirmed" =>
                  (IF <<i, e>> \in queue THEN 1 ELSE 0) + accepted[<<i, e>>] = 1

\* C24: two publishes with the same key by different users both claim the key,
\* leave a record each, and create an issue each.
C24_KeyScopedPerUser ==
    \A r, o \in Reqs :
        (/\ r # o /\ Done(r) /\ Done(o)
         /\ req[r].key = req[o].key /\ req[r].user # req[o].user
         /\ req[r].cause = "none" /\ req[o].cause = "none"
         /\ swept = {}) =>
            /\ req[r].path = "Claimed" /\ req[o].path = "Claimed"
            /\ idempotency[PairOf(r)] # NoRow /\ idempotency[PairOf(o)] # NoRow
            /\ Cardinality(IssueRows) = 2

\* the batch transaction of worker w ends in this step (commit, or Err and the
\* drop of the transaction) and the worker process goes on
BatchEnds(w) ==
    /\ wk[w].pc = "sending"
    /\ wk'[w].pc # "sending"
    /\ crashes' = crashes

\* the addresses of w's batch whose send the transport accepts in this step
SentNow(w) ==
    {e \in wk[w].batch : accepted'[<<wk[w].issue, e>>] = accepted[<<wk[w].issue, e>>] + 1}

\* C25: for every batch that commits, whatever the outcome of the DELETE (its
\* retries exhausted included), the rows that leave the queue are exactly the
\* claimed rows whose send was accepted, and the count later added to
\* finished_n_tasks (the size of finished_emails) is the number of rows that
\* left the queue.
C25_RemovedAreTheSentRows ==
    [][\A w \in Workers :
          (BatchEnds(w) /\ wk'[w].pc = "update") =>
              /\ queue \ queue' = {<<wk[w].issue, e>> : e \in SentNow(w)}
              /\ Cardinality(wk'[w].finished_emails) = Cardinality(queue \ queue')]_vars

\* C26: when a batch commits with no storage fault, every claimed task whose
\* address does not parse has left the queue (so that it is never claimed
\* again), and no send was made for it.
C26_MalformedTaskDropped ==
    [][\A w \in Workers :
          (BatchEnds(w) /\ wk'[w].pc = "update" /\ faults' = faults) =>
              \A e \in wk[w].batch :
                  ~SubscriberEmailParse(e) =>
                      /\ <<wk[w].issue, e>> \notin queue'
                      /\ accepted'[<<wk[w].issue, e>>] = accepted[<<wk[w].issue, e>>]]_vars

\* the issues some other worker has selected and is working on
HeldByOther(w) ==
    {wk[o].issue : o \in {x \in Workers \ {w} : wk[x].pc \in {"selected", "sending"}}}

\* C27: a worker that looks for work while another worker holds issue X selects
\* an AVAILABLE issue that no other worker holds, when there is one.
C27_SecondWorkerSkipsHeldIssue ==
    [][\A w \in Workers :
          (/\ wk[w].pc = "idle" /\ wk'[w].pc = "selected"
           /\ HeldByOther(w) # {}
           /\ AvailableIssues \ HeldByOther(w) # {}) =>
              wk'[w].issue \notin HeldByOther(w)]_vars

\* C30: a worker whose attempt ends with a storage call failed, or with the
\* send of some claimed, well-formed address not accepted, sleeps (one second)
\* before it claims again.
C30_SleepAfterAnyFailure ==
    [][\A w \in Workers :
          (/\ BatchEnds(w)
           /\ \/ faults' # faults
              \/ \E e \in wk[w].batch : SubscriberEmailParse(e) /\ e \notin SentNow(w)) =>
              wk'[w].pc = "backoff"]_vars

\* C28 as stated: a worker that awaits its sends or sleeps between the retries
\* of delete_tasks holds no row lock on a task.
C28_NoLockAcrossSuspension ==
    \A w \in Workers : wk[w].pc = "sending" => Locked(w) = {}

\* C28 as amended: from dequeue_tasks until its batch transaction commits or is
\* dropped, across the sends and the retry sleeps, a worker holds the row
\* locks of the batch it claimed: those rows are still in the queue and no
\* other worker can claim them; a queued row in no open batch of another
\* worker is claimable, so no lock is held outside a batch transaction.
C28_LocksHeldUntilBatchEnds ==
    \A w \in Workers :
        /\ wk[w].pc = "sending" =>
              /\ ClaimedBatch(w) \subseteq queue
              /\ \A o \in Workers \ {w} : wk[w].batch \cap Claimable(o, wk[w].issue) = {}
        /\ \A t \in queue :
              (\A o \in Workers \ {w} : t \notin ClaimedBatch(o)) => t[2] \in Claimable(w, t[1])

C28_Witness ==
    \E w, o \in Workers :
        /\ w # o
        /\ wk[w].pc = "sending" /\ wk[w].batch = {"a@x.io", "b@x.io"}
        /\ wk[o].pc = "selected" /\ wk[o].issue = wk[w].issue
        /\ Claimable(o, wk[o].issue) = {}
        /\ \E i \in IssueRows : i # wk[w].issue /\ Claimable(o, i) = {"a@x.io", "b@x.io"}

\* update_newsletters_issue_status of worker w commits in this step
FinishesBatch(w) ==
    /\ wk[w].pc = "update"
    /\ wk'[w].pc = "idle"
    /\ faults' = faults

\* C29: every batch that finishes on an issue, whatever other batch of that
\* issue finishes around it, adds its success count to finished_n_tasks (no
\* increment is lost), and the issue goes from AVAILABLE to COMPLETED in the
\* step of the batch that makes finished_n_tasks equal to required_n_tasks,
\* and in no other step.
C29_NoIncrementLost ==
    [][\A w \in Workers :
          FinishesBatch(w) =>
              LET i == wk[w].issue
                  n == Cardinality(wk[w].finished_emails)
              IN  /\ issues'[i].finished_n_tasks = issues[i].finished_n_tasks + n
                  /\ (issues[i].status = "AVAILABLE" /\ issues'[i].status = "COMPLETED")
                        <=> (/\ issues[i].status = "AVAILABLE"
                             /\ issues'[i].finished_n_tasks = issues[i].required_n_tasks)
                  /\ issues[i].status = "COMPLETED" => issues'[i].status = "COMPLETED"]_vars

\* C31: a worker that was told EmptyQueue does nothing until a wake signal
\* arrives: it leaves notified() only by taking the stored permit, in a step
\* that touches no table, or in the step of the publish that signals it, and no
\* send is made in either; the attempt that ends in EmptyQueue leaves the
\* issues, the queue, the counters and the sends as they were.
C31_EmptyQueueBlocksUntilWoken ==
    [][\A w \in Workers :
          /\ (wk[w].pc = "waiting" /\ wk'[w] # wk[w]) =>
                /\ wk'[w].pc = "idle"
                /\ accepted' = accepted
                /\ \/ permit /\ ~permit' /\ UNCHANGED <<issues, queue>>
                   \/ wired /\ \E i \in IssueIds : issues[i] = NoRow /\ issues'[i] # NoRow
          /\ (wk[w].pc # "waiting" /\ wk'[w].pc = "waiting") =>
                UNCHANGED <<issues, queue, accepted>>]_vars

C31_Witness ==
    \E w, o \in Workers :
        /\ wk[w].pc = "waiting"
        /\ ~permit
        /\ wk[o].pc = "sending" /\ wk[o].batch = {"a@x.io", "b@x.io"}
        /\ \E i \in AvailableIssues : i # wk[o].issue /\ Cardinality(TasksOf(i)) = 2

\* C32: a request whose INSERT affected no row and whose SELECT then finds no
\* record for its (user, key) ends there with a 500: it is not handled as a
\* claimed key (nothing is sent, no row is written), not as a completed one (no
\* stored response is returned), and it creates no issue and no task.
C32_MissingResponseIsAnError ==
    [][\A r \in Reqs :
          (/\ req[r].pc = "lookup"
           /\ idempotency[PairOf(r)] = NoRow
           /\ req'[r] # req[r]) =>
              /\ req'[r].pc = "done"
              /\ req'[r].out = e500
              /\ req'[r].path = "Conflict"
              /\ req'[r].sent = {}
              /\ UNCHANGED <<idempotency, issues, queue>>]_vars

C32_Witness ==
    \E r \in Reqs :
        /\ Done(r)
        /\ req[r].path = "Conflict"
        /\ req[r].cause = "no_response"
        /\ req[r].out = e500
        /\ PairOf(r) \in swept
        /\ idempotency[PairOf(r)] = NoRow

C35_KeyAcceptedIffOneTo63Bytes ==
    probe.pc \notin {"none", "input"} =>
        /\ probe.pc # "rejected" <=> (1 <= Len(probe.value) /\ Len(probe.value) <= 63)
        /\ probe.pc # "rejected" => probe.back = probe.value

C35_Witness ==
    /\ probe.pc = "key"
    /\ Len(probe.value) = 63
    /\ probe.back = Key63

\* worker w has a batch of issue i in hand: claimed, or committed and not yet
\* counted
InBatch(w, i) == wk[w].pc \in {"sending", "update"} /\ wk[w].issue = i

\* C36: for every issue no worker has a batch in hand for, finished_n_tasks
\* plus the number of its rows still in the queue equals required_n_tasks,
\* whatever storage error or crash has happened.
C36_CountersMatchQueue ==
    \A i \in IssueRows :
        (\A w \in Workers : ~InBatch(w, i)) =>
            issues[i].finished_n_tasks + Cardinality(TasksOf(i)) = issues[i].required_n_tasks

\* C37: a worker is told EmptyQueue only when no AVAILABLE issue has a task it
\* could claim.
C37_EmptyQueueOnlyWhenNothingToClaim ==
    [][\A w \in Workers :
          (wk[w].pc # "waiting" /\ wk'[w].pc = "waiting") =>
              \A i \in AvailableIssues : Claimable(w, i) = {}]_vars

\* C38: an issue published with no confirmed subscriber (required_n_tasks = 0,
\* no task), its wake signal reaching the workers, eventually has status
\* COMPLETED.
C38_EmptyIssueCompletes ==
    \A i \in IssueIds :
        [](wired /\ issues[i] # NoRow /\ issues[i].required_n_tasks = 0 =>
              <>(issues[i] # NoRow /\ issues[i].status = "COMPLETED"))

\* C39: every committed idempotency record has its response stored (a
\* placeholder is never visible to another transaction), and a committed
\* record is never changed afterwards: a step either keeps its response or,
\* when it is the sweeper's, deletes the record.
C39_CommittedRecordIsComplete ==
    /\ [](\A p \in Pairs : idempotency[p] # NoRow => idempotency[p].response # Null)
    /\ [][\A p \in Pairs :
             idempotency[p] # NoRow =>
                \/ idempotency'[p] # NoRow
                   /\ idempotency'[p].response = idempotency[p].response
                \/ idempotency'[p] = NoRow /\ p \in swept']_vars

C39_Witness ==
    \E r, o \in Reqs :
        /\ Done(r) /\ req[r].path = "Claimed" /\ req[r].cause = "none"
        /\ idempotency[PairOf(r)] # NoRow
        /\ idempotency[PairOf(r)].response = SaveResponse(see_other("/admin/newsletters"))
        /\ Done(o) /\ req[o].path = "Claimed" /\ req[o].cause \in {"storage", "transport"}
        /\ idempotency[PairOf(o)] = NoRow
        /\ swept = {}

\* some AVAILABLE issue has a task worker w could claim
HasWork(w) == \E i \in AvailableIssues : Claimable(w, i) # {}

\* C40: with the wake signal of every publish reaching the workers, a worker
\* does not stay blocked in notified() while an AVAILABLE issue has a task it
\* could claim: it is woken, or the tasks are taken by another worker.
C40_WorkerNotLeftBlocked ==
    \A w \in Workers :
        [](wired /\ wk[w].pc = "waiting" /\ HasWork(w) =>
              <>(wk[w].pc # "waiting" \/ ~HasWork(w)))

====
